---- MODULE Spec2Model ----
(***************************************************************************)
(* LRU-K replacer of src/buffer/lru_k_replacer.cpp (the variant with the   *)
(* pending-update map, lines 1-250) as a state machine.                    *)
(*                                                                         *)
(* evictable_ is a std::vector kept as a binary max-heap by the standard   *)
(* heap algorithms.  The standard fixes only that the result is a heap;    *)
(* the model keeps the arrangement sorted from largest to smallest under   *)
(* LRUKAge::operator<, which is one valid heap arrangement.                *)
(***************************************************************************)
EXTENDS Integers, Sequences, FiniteSets, TLC

(* ---------------- bounds ---------------- *)
MaxFrameId == 1
MaxK == 3
MaxTime == 4
NumThreads == 2
ConcMaxFrameId == 0
ConcMaxK == 2
ConcMaxTime == 3
ScenarioMaxNumFrames == 7
MaxBits == 1
MaxExponent == 6

FrameIds == 0..MaxFrameId
Threads == 1..NumThreads
NoThread == 0

(* std::nullopt of std::optional<frame_id_t> / std::optional<size_t> *)
NoValue == -1

VARIABLES
    k_,                  \* const size_t k_
    current_timestamp_,  \* std::atomic<size_t>
    node_store_,         \* unordered_map<frame_id_t, LRUKNode>
    update_eviction_,    \* unordered_map<frame_id_t, LRUKAge>
    evictable_,          \* vector<LRUKAge> kept as a heap
    aborted,             \* an assertion has failed; the process is gone
    last,                \* the call that completed last, with its result
    pre,                 \* the state of the object when that call started
    purged,              \* frames that were removed or evicted at least once
    pc,                  \* where each thread is in the call it runs
    frame,               \* each thread's arguments and locals of that call
    latch_store_,        \* std::mutex: the holding thread, or NoThread
    latch_evictable_,    \* std::mutex: the holding thread, or NoThread
    issued,              \* the timestamps given to accesses, in the order given
    replacer_size_,      \* size_t replacer_size_ (num_frames)
    \* the replacer of lines 252-482 of lru_k_replacer.cpp, which repositions
    \* the key on every access
    eager_node_store_,
    eager_evictable,
    eager_current_timestamp_,
    eager_ret,           \* what its last call returned
    \* HyperLogLog
    n_bits_,
    buckets_,            \* vector<uint8_t>, indexed from 0
    cardinality_,
    \* HyperLogLogPresto
    n_leading_bits_,
    dense_bucket_,       \* vector<bitset<DENSE_BUCKET_SIZE>>, indexed from 0
    overflow_bucket_,    \* unordered_map<uint16_t, bitset<OVERFLOW_BUCKET_SIZE>>
    presto_cardinality_,
    offered              \* the largest value AddElem extracted for each bucket so far

threadVars == <<pc, frame, latch_store_, latch_evictable_>>

eagerVars == <<eager_node_store_, eager_evictable, eager_current_timestamp_, eager_ret>>

hllVars == <<n_bits_, buckets_, cardinality_>>

prestoVars == <<n_leading_bits_, dense_bucket_, overflow_bucket_, presto_cardinality_,
                offered>>

\* what the calls of one replacer leave alone
otherVars == <<replacer_size_, eagerVars, hllVars, prestoVars>>

vars == <<k_, current_timestamp_, node_store_, update_eviction_, evictable_,
          aborted, last, pre, purged, pc, frame, latch_store_, latch_evictable_,
          issued, otherVars>>

(* ---------------- LRUKNode ---------------- *)
\* LRUKNode(id, access_t): history_ = [access_t], hCount_ = 1, not evictable
LRUKNode(id, access_t) ==
    [fid_ |-> id, history_ |-> <<access_t>>, hCount_ |-> 1, is_evictable_ |-> FALSE]

(* ---------------- LRUKAge ---------------- *)
\* operator< with the comparison of the K-th timestamps turned round
Less_kAccessReversed(a, b) ==
    IF a.kAccess_ # NoValue
    THEN IF b.kAccess_ # NoValue THEN a.kAccess_ < b.kAccess_ ELSE TRUE
    ELSE IF b.kAccess_ # NoValue THEN FALSE ELSE a.lAccess_ > b.lAccess_

\* a < b of LRUKAge::operator<  (the assertions are stated apart)
Less(a, b) ==
    IF a.kAccess_ # NoValue
    THEN IF b.kAccess_ # NoValue THEN a.kAccess_ > b.kAccess_ ELSE TRUE
    ELSE IF b.kAccess_ # NoValue THEN FALSE ELSE a.lAccess_ > b.lAccess_

\* fromNode that takes the access count for the K-th timestamp
fromNode_kAccessIsCount(node, k) ==
    [fid_ |-> node.fid_,
     lAccess_ |-> Head(node.history_),
     kAccess_ |-> IF node.hCount_ < k THEN NoValue ELSE node.hCount_]

fromNode(node, k) ==
    [fid_ |-> node.fid_,
     lAccess_ |-> Head(node.history_),
     kAccess_ |-> IF node.hCount_ < k THEN NoValue
                  ELSE node.history_[Len(node.history_)]]

(* ---------------- heap algorithms on evictable_ ---------------- *)
RECURSIVE InsertSorted(_, _)
InsertSorted(s, a) ==
    IF s = <<>> THEN <<a>>
    ELSE IF Less(Head(s), a) THEN <<a>> \o s
    ELSE <<Head(s)>> \o InsertSorted(Tail(s), a)

\* std::push_heap after push_back(a)
push_heap(s, a) == InsertSorted(s, a)

RECURSIVE make_heap(_)
make_heap(s) ==
    IF s = <<>> THEN <<>>
    ELSE InsertSorted(make_heap(Tail(s)), Head(s))

\* std::pop_heap moves the largest entry to the back; back() reads it
heap_top(s) == Head(s)
\* pop_heap without the pop_back that follows it
pop_heap_noPopBack(s) == Tail(s) \o <<Head(s)>>

\* what is left after pop_heap and pop_back
pop_heap(s) == Tail(s)

(* ---------------- private helpers ---------------- *)
on_updatedEvictable(upd, node, k) ==
    IF node.fid_ \in DOMAIN upd THEN upd
    ELSE upd @@ (node.fid_ :> fromNode(node, k))

Erase(m, key) == [x \in (DOMAIN m) \ {key} |-> m[x]]

FindFid(ev, fid) ==
    IF \E i \in 1..Len(ev) : ev[i].fid_ = fid
    THEN CHOOSE i \in 1..Len(ev) :
            ev[i].fid_ = fid /\ \A j \in 1..(i - 1) : ev[j].fid_ # fid
    ELSE 0

PopBack(s) == SubSeq(s, 1, Len(s) - 1)

\* removeEvictable as a plausible slip: the entry is overwritten by the
\* back but pop_back is forgotten
removeEvictable_noPopBack(ev, upd, fid) ==
    LET at == FindFid(ev, fid)
        moved == [ev EXCEPT ![at] = ev[Len(ev)]]
    IN [evictable_ |-> make_heap(moved), update_eviction_ |-> Erase(upd, fid)]

\* removeEvictable that does not use the found position and pops the back
removeEvictable_popsBackOnly(ev, upd, fid) ==
    LET popped == PopBack(ev)
    IN [evictable_ |-> IF popped # <<>> THEN make_heap(popped) ELSE popped,
        update_eviction_ |-> Erase(upd, fid)]

\* removeEvictable without update_eviction_.erase( fid )
removeEvictable_keepsUpdate(ev, upd, fid) ==
    LET at == FindFid(ev, fid)
        moved == [ev EXCEPT ![at] = ev[Len(ev)]]
        popped == PopBack(moved)
    IN [evictable_ |-> IF popped # <<>> THEN make_heap(popped) ELSE popped,
        update_eviction_ |-> upd]

\* removeEvictable(fid): the vector and the pending updates it leaves;
\* fid is present in the vector at every call
removeEvictable(ev, upd, fid) ==
    LET at == FindFid(ev, fid)
        moved == [ev EXCEPT ![at] = ev[Len(ev)]]
        popped == PopBack(moved)
    IN [evictable_ |-> IF popped # <<>> THEN make_heap(popped) ELSE popped,
        update_eviction_ |-> Erase(upd, fid)]

\* addEvictable that forgets the push
addEvictable_noPush(ev, node, k) == ev

addEvictable(ev, node, k) == push_heap(ev, fromNode(node, k))

(* ---------------- state ---------------- *)
Snapshot ==
    [node_store_ |-> node_store_, update_eviction_ |-> update_eviction_,
     evictable_ |-> evictable_, current_timestamp_ |-> current_timestamp_]

Call(op, fid, flag, ret) == [op |-> op, fid |-> fid, flag |-> flag, ret |-> ret]

EmptyMap == [x \in {} |-> 0]

EmptySnapshot ==
    [node_store_ |-> EmptyMap, update_eviction_ |-> EmptyMap,
     evictable_ |-> <<>>, current_timestamp_ |-> 0]

\* arguments and locals of a call: frame_id, set_evictable, accessTime, and
\* the replacer state the call found when it took the store lock
Frame(fid, flag, accessTime) ==
    [fid |-> fid, flag |-> flag, accessTime |-> accessTime, found |-> EmptySnapshot]
NoFrame == Frame(NoValue, FALSE, NoValue)

\* LRUKReplacer(num_frames, k): everything but the two arguments
ReplacerInit ==
    /\ current_timestamp_ = 0
    /\ node_store_ = EmptyMap
    /\ update_eviction_ = EmptyMap
    /\ evictable_ = <<>>
    /\ aborted = FALSE
    /\ last = Call("new", NoValue, FALSE, NoValue)
    /\ pre = EmptySnapshot
    /\ purged = {}
    /\ pc = [t \in Threads |-> "idle"]
    /\ frame = [t \in Threads |-> NoFrame]
    /\ latch_store_ = NoThread
    /\ latch_evictable_ = NoThread
    /\ issued = <<>>

\* the second replacer, constructed with the same arguments
EagerInit ==
    /\ eager_node_store_ = EmptyMap
    /\ eager_evictable = <<>>
    /\ eager_current_timestamp_ = 0
    /\ eager_ret = NoValue

\* no estimator has been constructed
NoEstimators ==
    /\ n_bits_ = NoValue /\ buckets_ = <<>> /\ cardinality_ = 0
    /\ n_leading_bits_ = NoValue /\ dense_bucket_ = <<>>
    /\ overflow_bucket_ = EmptyMap /\ presto_cardinality_ = 0
    /\ offered = <<>>

Init ==
    /\ k_ \in 1..MaxK
    /\ replacer_size_ = MaxFrameId + 1
    /\ ReplacerInit
    /\ EagerInit
    /\ NoEstimators

(* ---------------- RecordAccess ---------------- *)
\* LRUKReplacer_X is the method X acting on the replacer's own state; the
\* action X is a call of it in a run where calls do not overlap.
\* the node store and the pending updates after the locked part
RecordAccessStore(store, frame_id, accessTime, k) ==
    IF frame_id \notin DOMAIN store
    THEN store @@ (frame_id :> LRUKNode(frame_id, accessTime))
    ELSE LET n == store[frame_id]
             pushed == <<accessTime>> \o n.history_
         IN [store EXCEPT ![frame_id] =
                IF n.hCount_ >= k
                THEN [n EXCEPT !.history_ = PopBack(pushed)]
                ELSE [n EXCEPT !.history_ = pushed, !.hCount_ = n.hCount_ + 1]]

RecordAccessUpdates(store, upd, frame_id, accessTime, k) ==
    IF frame_id \in DOMAIN store /\ store[frame_id].is_evictable_
    THEN on_updatedEvictable(upd,
            RecordAccessStore(store, frame_id, accessTime, k)[frame_id], k)
    ELSE upd

LRUKReplacer_RecordAccess(frame_id) ==
    /\ ~aborted
    /\ current_timestamp_' = current_timestamp_ + 1
    /\ node_store_' = RecordAccessStore(node_store_, frame_id, current_timestamp_, k_)
    /\ update_eviction_' = RecordAccessUpdates(node_store_, update_eviction_,
                                               frame_id, current_timestamp_, k_)
    /\ last' = Call("RecordAccess", frame_id, FALSE, current_timestamp_)
    /\ pre' = Snapshot
    /\ issued' = Append(issued, current_timestamp_)
    /\ UNCHANGED <<k_, evictable_, aborted, purged>>
    /\ UNCHANGED threadVars

RecordAccess(frame_id) ==
    /\ current_timestamp_ < MaxTime
    /\ LRUKReplacer_RecordAccess(frame_id)
    /\ UNCHANGED otherVars

(* ---------------- SetEvictable ---------------- *)
\* SetEvictable that skips the early return when the flag is already true
SetEvictable_noSameCheck(frame_id, set_evictable) ==
    /\ ~aborted
    /\ IF frame_id \notin DOMAIN node_store_
       THEN UNCHANGED <<node_store_, update_eviction_, evictable_>>
       ELSE IF ~set_evictable /\ ~node_store_[frame_id].is_evictable_
       THEN UNCHANGED <<node_store_, update_eviction_, evictable_>>
       ELSE /\ node_store_' = [node_store_ EXCEPT ![frame_id].is_evictable_ = set_evictable]
            /\ IF set_evictable
               THEN /\ evictable_' = addEvictable(evictable_, node_store_'[frame_id], k_)
                    /\ UNCHANGED update_eviction_
               ELSE LET r == removeEvictable(evictable_, update_eviction_, frame_id)
                    IN /\ evictable_' = r.evictable_
                       /\ update_eviction_' = r.update_eviction_
    /\ last' = Call("SetEvictable", frame_id, set_evictable, NoValue)
    /\ pre' = Snapshot
    /\ UNCHANGED <<k_, issued, current_timestamp_, aborted, purged>>
    /\ UNCHANGED threadVars
    /\ UNCHANGED otherVars

LRUKReplacer_SetEvictable(frame_id, set_evictable) ==
    /\ ~aborted
    /\ IF frame_id \notin DOMAIN node_store_
       THEN UNCHANGED <<node_store_, update_eviction_, evictable_>>
       ELSE IF node_store_[frame_id].is_evictable_ = set_evictable
       THEN UNCHANGED <<node_store_, update_eviction_, evictable_>>
       ELSE /\ node_store_' = [node_store_ EXCEPT ![frame_id].is_evictable_ = set_evictable]
            /\ IF set_evictable
               THEN /\ evictable_' = addEvictable(evictable_, node_store_'[frame_id], k_)
                    /\ UNCHANGED update_eviction_
               ELSE LET r == removeEvictable(evictable_, update_eviction_, frame_id)
                    IN /\ evictable_' = r.evictable_
                       /\ update_eviction_' = r.update_eviction_
    /\ last' = Call("SetEvictable", frame_id, set_evictable, NoValue)
    /\ pre' = Snapshot
    /\ UNCHANGED <<k_, issued, current_timestamp_, aborted, purged>>
    /\ UNCHANGED threadVars

SetEvictable(frame_id, set_evictable) ==
    /\ LRUKReplacer_SetEvictable(frame_id, set_evictable)
    /\ UNCHANGED otherVars

(* ---------------- Remove ---------------- *)
LRUKReplacer_Remove(frame_id) ==
    /\ ~aborted
    /\ IF frame_id \notin DOMAIN node_store_
       THEN \* BUSTUB_ASSERT( pos != node_store_.end(), ... ) fails
            /\ aborted' = TRUE
            /\ UNCHANGED <<node_store_, update_eviction_, evictable_, purged>>
       ELSE /\ IF node_store_[frame_id].is_evictable_
               THEN LET r == removeEvictable(evictable_, update_eviction_, frame_id)
                    IN /\ evictable_' = r.evictable_
                       /\ update_eviction_' = r.update_eviction_
               ELSE UNCHANGED <<evictable_, update_eviction_>>
            /\ node_store_' = Erase(node_store_, frame_id)
            /\ purged' = purged \cup {frame_id}
            /\ UNCHANGED aborted
    /\ last' = Call("Remove", frame_id, FALSE, NoValue)
    /\ pre' = Snapshot
    /\ UNCHANGED <<k_, issued, current_timestamp_>>
    /\ UNCHANGED threadVars

Remove(frame_id) ==
    /\ LRUKReplacer_Remove(frame_id)
    /\ UNCHANGED otherVars

(* ---------------- Evict ---------------- *)
\* the for_each over evictable_ that overwrites the keys with a pending update
ApplyUpdates(ev, upd) ==
    [i \in 1..Len(ev) |->
        IF ev[i].fid_ \in DOMAIN upd THEN upd[ev[i].fid_] ELSE ev[i]]

EvictHeap(ev, upd) ==
    IF Cardinality(DOMAIN upd) > 0 THEN make_heap(ApplyUpdates(ev, upd)) ELSE ev

LRUKReplacer_Evict ==
    /\ ~aborted
    /\ IF evictable_ = <<>>
       THEN /\ last' = Call("Evict", NoValue, FALSE, NoValue)
            /\ UNCHANGED <<node_store_, update_eviction_, evictable_, purged>>
       ELSE LET heap == EvictHeap(evictable_, update_eviction_)
                to_evict == heap_top(heap)
            IN /\ update_eviction_' = EmptyMap
               /\ evictable_' = pop_heap(heap)
               /\ node_store_' = Erase(node_store_, to_evict.fid_)
               /\ purged' = purged \cup {to_evict.fid_}
               /\ last' = Call("Evict", NoValue, FALSE, to_evict.fid_)
    /\ pre' = Snapshot
    /\ UNCHANGED <<k_, issued, current_timestamp_, aborted>>
    /\ UNCHANGED threadVars

Evict ==
    /\ LRUKReplacer_Evict
    /\ UNCHANGED otherVars

(* ---------------- Size ---------------- *)
LRUKReplacer_Size ==
    /\ ~aborted
    /\ last' = Call("Size", NoValue, FALSE, Len(evictable_))
    /\ pre' = Snapshot
    /\ UNCHANGED <<k_, issued, current_timestamp_, node_store_, update_eviction_,
                   evictable_, aborted, purged>>
    /\ UNCHANGED threadVars

Size ==
    /\ LRUKReplacer_Size
    /\ UNCHANGED otherVars

Next ==
    \/ \E f \in FrameIds : RecordAccess(f)
    \/ \E f \in FrameIds, x \in BOOLEAN : SetEvictable(f, x)
    \/ \E f \in FrameIds : Remove(f)
    \/ Evict
    \/ Size

Spec == Init /\ [][Next]_vars

\* the same calls on a replacer constructed with fewer frames than the
\* frame ids the callers use
RangeInit ==
    /\ k_ \in 1..MaxK
    /\ replacer_size_ \in 0..MaxFrameId
    /\ ReplacerInit
    /\ EagerInit
    /\ NoEstimators

RangeSpec == RangeInit /\ [][Next]_vars

(* ======================= threads ======================= *)
(* The same calls, run by several threads, one step per lock acquisition   *)
(* and per critical section.  A lock_guard is taken in one step and the    *)
(* code it guards runs in the next, also for the inner critical sections   *)
(* (addEvictable, removeEvictable).                                        *)
ConcFrameIds == 0..ConcMaxFrameId

Goto(t, label) == pc' = [pc EXCEPT ![t] = label]
Return(t) == pc' = [pc EXCEPT ![t] = "idle"] /\ frame' = [frame EXCEPT ![t] = NoFrame]

\* RecordAccess with a plain counter: the increment of a call can be lost
\* to the increment of another
RecordAccess_fetch_add_lostUpdate(t, frame_id) ==
    /\ ~aborted /\ pc[t] = "idle"
    /\ Len(issued) < ConcMaxTime
    /\ current_timestamp_' \in {current_timestamp_, current_timestamp_ + 1}
    /\ issued' = Append(issued, current_timestamp_)
    /\ frame' = [frame EXCEPT ![t] = Frame(frame_id, FALSE, current_timestamp_)]
    /\ Goto(t, "RecordAccess_lock")
    /\ UNCHANGED <<k_, node_store_, update_eviction_, evictable_, aborted, last,
                   pre, purged, latch_store_, latch_evictable_>>
    /\ UNCHANGED otherVars

\* RecordAccess, line 113: current_timestamp_.fetch_add( 1 )
RecordAccess_fetch_add(t, frame_id) ==
    /\ ~aborted /\ pc[t] = "idle"
    /\ current_timestamp_ < ConcMaxTime
    /\ current_timestamp_' = current_timestamp_ + 1
    /\ frame' = [frame EXCEPT ![t] = Frame(frame_id, FALSE, current_timestamp_)]
    /\ issued' = Append(issued, current_timestamp_)
    /\ Goto(t, "RecordAccess_lock")
    /\ UNCHANGED <<k_, node_store_, update_eviction_, evictable_, aborted, last,
                   pre, purged, latch_store_, latch_evictable_>>
    /\ UNCHANGED otherVars

\* RecordAccess, line 115: std::lock_guard store_guard( latch_store_ )
RecordAccess_lock(t) ==
    /\ ~aborted /\ pc[t] = "RecordAccess_lock"
    /\ latch_store_ = NoThread
    /\ latch_store_' = t
    /\ Goto(t, "RecordAccess_body")
    /\ UNCHANGED <<k_, issued, current_timestamp_, node_store_, update_eviction_, evictable_,
                   aborted, last, pre, purged, frame, latch_evictable_>>
    /\ UNCHANGED otherVars

\* RecordAccess, lines 117-136
RecordAccess_body(t) ==
    /\ ~aborted /\ pc[t] = "RecordAccess_body"
    /\ node_store_' = RecordAccessStore(node_store_, frame[t].fid, frame[t].accessTime, k_)
    /\ update_eviction_' = RecordAccessUpdates(node_store_, update_eviction_,
                                               frame[t].fid, frame[t].accessTime, k_)
    /\ last' = Call("RecordAccess", frame[t].fid, FALSE, frame[t].accessTime)
    /\ pre' = Snapshot
    /\ latch_store_' = NoThread
    /\ Return(t)
    /\ UNCHANGED <<k_, issued, current_timestamp_, evictable_, aborted, purged, latch_evictable_>>
    /\ UNCHANGED otherVars

\* a thread enters SetEvictable, Remove, Evict or Size
SetEvictable_call(t, frame_id, set_evictable) ==
    /\ ~aborted /\ pc[t] = "idle"
    /\ frame' = [frame EXCEPT ![t] = Frame(frame_id, set_evictable, NoValue)]
    /\ Goto(t, "SetEvictable_lock")
    /\ UNCHANGED <<k_, issued, current_timestamp_, node_store_, update_eviction_, evictable_,
                   aborted, last, pre, purged, latch_store_, latch_evictable_>>
    /\ UNCHANGED otherVars

\* SetEvictable, line 157: std::lock_guard lock(latch_store_)
SetEvictable_lock(t) ==
    /\ ~aborted /\ pc[t] = "SetEvictable_lock"
    /\ latch_store_ = NoThread
    /\ latch_store_' = t
    /\ Goto(t, "SetEvictable_body")
    /\ UNCHANGED <<k_, issued, current_timestamp_, node_store_, update_eviction_, evictable_,
                   aborted, last, pre, purged, frame, latch_evictable_>>
    /\ UNCHANGED otherVars

\* SetEvictable, lines 159-170: the early returns, else the flag is flipped
SetEvictable_body(t) ==
    /\ ~aborted /\ pc[t] = "SetEvictable_body"
    /\ IF \/ frame[t].fid \notin DOMAIN node_store_
          \/ node_store_[frame[t].fid].is_evictable_ = frame[t].flag
       THEN /\ last' = Call("SetEvictable", frame[t].fid, frame[t].flag, NoValue)
            /\ pre' = Snapshot
            /\ latch_store_' = NoThread
            /\ Return(t)
            /\ UNCHANGED node_store_
       ELSE /\ node_store_' = [node_store_ EXCEPT ![frame[t].fid].is_evictable_ = frame[t].flag]
            /\ frame' = [frame EXCEPT ![t].found = Snapshot]
            /\ Goto(t, IF frame[t].flag THEN "addEvictable" ELSE "removeEvictable")
            /\ UNCHANGED <<last, pre, latch_store_>>
    /\ UNCHANGED <<k_, issued, current_timestamp_, update_eviction_, evictable_, aborted,
                   purged, latch_evictable_>>
    /\ UNCHANGED otherVars

\* addEvictable that enters its body without taking latch_evictable_
SetEvictable_addEvictable_lock_noLock(t) ==
    /\ ~aborted /\ pc[t] = "addEvictable"
    /\ Goto(t, "addEvictable_body")
    /\ UNCHANGED <<k_, issued, current_timestamp_, node_store_, update_eviction_, evictable_,
                   aborted, last, pre, purged, frame, latch_store_, latch_evictable_>>
    /\ UNCHANGED otherVars

\* addEvictable, line 232: std::lock_guard lock( latch_evictable_ )
SetEvictable_addEvictable_lock(t) ==
    /\ ~aborted /\ pc[t] = "addEvictable"
    /\ latch_evictable_ = NoThread
    /\ latch_evictable_' = t
    /\ Goto(t, "addEvictable_body")
    /\ UNCHANGED <<k_, issued, current_timestamp_, node_store_, update_eviction_, evictable_,
                   aborted, last, pre, purged, frame, latch_store_>>
    /\ UNCHANGED otherVars

\* SetEvictable, line 171: addEvictable under latch_evictable_, then return
SetEvictable_addEvictable(t) ==
    /\ ~aborted /\ pc[t] = "addEvictable_body"
    /\ latch_evictable_' = NoThread
    /\ evictable_' = addEvictable(evictable_, node_store_[frame[t].fid], k_)
    /\ pre' = frame[t].found
    /\ last' = Call("SetEvictable", frame[t].fid, frame[t].flag, NoValue)
    /\ latch_store_' = NoThread
    /\ Return(t)
    /\ UNCHANGED <<k_, issued, current_timestamp_, node_store_, update_eviction_, aborted,
                   purged>>
    /\ UNCHANGED otherVars

\* removeEvictable, line 218: std::lock_guard lock( latch_evictable_ )
SetEvictable_removeEvictable_lock(t) ==
    /\ ~aborted /\ pc[t] = "removeEvictable"
    /\ latch_evictable_ = NoThread
    /\ latch_evictable_' = t
    /\ Goto(t, "removeEvictable_body")
    /\ UNCHANGED <<k_, issued, current_timestamp_, node_store_, update_eviction_, evictable_,
                   aborted, last, pre, purged, frame, latch_store_>>
    /\ UNCHANGED otherVars

\* SetEvictable, line 171: removeEvictable under latch_evictable_, then return
SetEvictable_removeEvictable(t) ==
    /\ ~aborted /\ pc[t] = "removeEvictable_body"
    /\ latch_evictable_' = NoThread
    /\ LET r == removeEvictable(evictable_, update_eviction_, frame[t].fid)
       IN /\ evictable_' = r.evictable_
          /\ update_eviction_' = r.update_eviction_
    /\ pre' = frame[t].found
    /\ last' = Call("SetEvictable", frame[t].fid, frame[t].flag, NoValue)
    /\ latch_store_' = NoThread
    /\ Return(t)
    /\ UNCHANGED <<k_, issued, current_timestamp_, node_store_, aborted, purged>>
    /\ UNCHANGED otherVars

Remove_call(t, frame_id) ==
    /\ ~aborted /\ pc[t] = "idle"
    /\ frame' = [frame EXCEPT ![t] = Frame(frame_id, FALSE, NoValue)]
    /\ Goto(t, "Remove_lock")
    /\ UNCHANGED <<k_, issued, current_timestamp_, node_store_, update_eviction_, evictable_,
                   aborted, last, pre, purged, latch_store_, latch_evictable_>>
    /\ UNCHANGED otherVars

\* Remove, line 193: std::lock_guard giard( latch_store_ )
Remove_lock(t) ==
    /\ ~aborted /\ pc[t] = "Remove_lock"
    /\ latch_store_ = NoThread
    /\ latch_store_' = t
    /\ Goto(t, "Remove_body")
    /\ UNCHANGED <<k_, issued, current_timestamp_, node_store_, update_eviction_, evictable_,
                   aborted, last, pre, purged, frame, latch_evictable_>>
    /\ UNCHANGED otherVars

\* Remove, lines 195-200: the assertion, then the branch on is_evictable_
Remove_body(t) ==
    /\ ~aborted /\ pc[t] = "Remove_body"
    /\ IF frame[t].fid \notin DOMAIN node_store_
       THEN /\ aborted' = TRUE
            /\ last' = Call("Remove", frame[t].fid, FALSE, NoValue)
            /\ pre' = Snapshot
            /\ UNCHANGED <<node_store_, purged, pc, frame, latch_store_>>
       ELSE IF node_store_[frame[t].fid].is_evictable_
       THEN /\ frame' = [frame EXCEPT ![t].found = Snapshot]
            /\ Goto(t, "Remove_removeEvictable")
            /\ UNCHANGED <<node_store_, purged, aborted, last, pre, latch_store_>>
       ELSE /\ node_store_' = Erase(node_store_, frame[t].fid)
            /\ purged' = purged \cup {frame[t].fid}
            /\ last' = Call("Remove", frame[t].fid, FALSE, NoValue)
            /\ pre' = Snapshot
            /\ latch_store_' = NoThread
            /\ Return(t)
            /\ UNCHANGED aborted
    /\ UNCHANGED <<k_, issued, current_timestamp_, update_eviction_, evictable_, latch_evictable_>>
    /\ UNCHANGED otherVars

\* removeEvictable called from Remove, line 218: std::lock_guard lock( latch_evictable_ )
Remove_removeEvictable_lock(t) ==
    /\ ~aborted /\ pc[t] = "Remove_removeEvictable"
    /\ latch_evictable_ = NoThread
    /\ latch_evictable_' = t
    /\ Goto(t, "Remove_removeEvictable_body")
    /\ UNCHANGED <<k_, issued, current_timestamp_, node_store_, update_eviction_, evictable_,
                   aborted, last, pre, purged, frame, latch_store_>>
    /\ UNCHANGED otherVars

\* Remove, lines 198-200: removeEvictable under latch_evictable_, then erase
Remove_removeEvictable(t) ==
    /\ ~aborted /\ pc[t] = "Remove_removeEvictable_body"
    /\ latch_evictable_' = NoThread
    /\ LET r == removeEvictable(evictable_, update_eviction_, frame[t].fid)
       IN /\ evictable_' = r.evictable_
          /\ update_eviction_' = r.update_eviction_
    /\ node_store_' = Erase(node_store_, frame[t].fid)
    /\ purged' = purged \cup {frame[t].fid}
    /\ pre' = frame[t].found
    /\ last' = Call("Remove", frame[t].fid, FALSE, NoValue)
    /\ latch_store_' = NoThread
    /\ Return(t)
    /\ UNCHANGED <<k_, issued, current_timestamp_, aborted>>
    /\ UNCHANGED otherVars

Evict_call(t) ==
    /\ ~aborted /\ pc[t] = "idle"
    /\ Goto(t, "Evict_lock")
    /\ UNCHANGED <<k_, issued, current_timestamp_, node_store_, update_eviction_, evictable_,
                   aborted, last, pre, purged, frame, latch_store_, latch_evictable_>>
    /\ UNCHANGED otherVars

\* Evict, line 69: std::scoped_lock lock(latch_store_, latch_evictable_);
\* std::lock returns only with both mutexes held and holds none while it waits
Evict_lock(t) ==
    /\ ~aborted /\ pc[t] = "Evict_lock"
    /\ latch_store_ = NoThread /\ latch_evictable_ = NoThread
    /\ latch_store_' = t /\ latch_evictable_' = t
    /\ Goto(t, "Evict_body")
    /\ UNCHANGED <<k_, issued, current_timestamp_, node_store_, update_eviction_, evictable_,
                   aborted, last, pre, purged, frame>>
    /\ UNCHANGED otherVars

\* Evict, lines 71-95
Evict_body(t) ==
    /\ ~aborted /\ pc[t] = "Evict_body"
    /\ pre' = Snapshot
    /\ IF evictable_ = <<>>
       THEN /\ last' = Call("Evict", NoValue, FALSE, NoValue)
            /\ UNCHANGED <<node_store_, update_eviction_, evictable_, purged>>
       ELSE LET heap == EvictHeap(evictable_, update_eviction_)
                to_evict == heap_top(heap)
            IN /\ update_eviction_' = EmptyMap
               /\ evictable_' = pop_heap(heap)
               /\ node_store_' = Erase(node_store_, to_evict.fid_)
               /\ purged' = purged \cup {to_evict.fid_}
               /\ last' = Call("Evict", NoValue, FALSE, to_evict.fid_)
    /\ latch_store_' = NoThread /\ latch_evictable_' = NoThread
    /\ Return(t)
    /\ UNCHANGED <<k_, issued, current_timestamp_, aborted>>
    /\ UNCHANGED otherVars

Size_call(t) ==
    /\ ~aborted /\ pc[t] = "idle"
    /\ Goto(t, "Size_lock")
    /\ UNCHANGED <<k_, issued, current_timestamp_, node_store_, update_eviction_, evictable_,
                   aborted, last, pre, purged, frame, latch_store_, latch_evictable_>>
    /\ UNCHANGED otherVars

\* Size, line 212: std::lock_guard lock( latch_evictable_ )
Size_lock(t) ==
    /\ ~aborted /\ pc[t] = "Size_lock"
    /\ latch_evictable_ = NoThread
    /\ latch_evictable_' = t
    /\ Goto(t, "Size_body")
    /\ UNCHANGED <<k_, issued, current_timestamp_, node_store_, update_eviction_, evictable_,
                   aborted, last, pre, purged, frame, latch_store_>>
    /\ UNCHANGED otherVars

\* Size, line 213
Size_body(t) ==
    /\ ~aborted /\ pc[t] = "Size_body"
    /\ last' = Call("Size", NoValue, FALSE, Len(evictable_))
    /\ pre' = Snapshot
    /\ latch_evictable_' = NoThread
    /\ Return(t)
    /\ UNCHANGED <<k_, issued, current_timestamp_, node_store_, update_eviction_, evictable_,
                   aborted, purged, latch_store_>>
    /\ UNCHANGED otherVars

ConcInit == Init /\ k_ \in 1..ConcMaxK

ConcNext ==
    \E t \in Threads :
        \/ \E f \in ConcFrameIds : RecordAccess_fetch_add(t, f)
        \/ RecordAccess_lock(t)
        \/ RecordAccess_body(t)
        \/ \E f \in ConcFrameIds, x \in BOOLEAN : SetEvictable_call(t, f, x)
        \/ SetEvictable_lock(t)
        \/ SetEvictable_body(t)
        \/ SetEvictable_addEvictable_lock(t)
        \/ SetEvictable_addEvictable(t)
        \/ SetEvictable_removeEvictable_lock(t)
        \/ SetEvictable_removeEvictable(t)
        \/ \E f \in ConcFrameIds : Remove_call(t, f)
        \/ Remove_lock(t)
        \/ Remove_body(t)
        \/ Remove_removeEvictable_lock(t)
        \/ Remove_removeEvictable(t)
        \/ Evict_call(t)
        \/ Evict_lock(t)
        \/ Evict_body(t)
        \/ Size_call(t)
        \/ Size_lock(t)
        \/ Size_body(t)

ConcSpec == ConcInit /\ [][ConcNext]_vars

\* the steps of a thread inside a call: taking a lock it waits for, or
\* running the code of a critical section
Continue(t) ==
    \/ RecordAccess_lock(t)
    \/ RecordAccess_body(t)
    \/ SetEvictable_lock(t)
    \/ SetEvictable_body(t)
    \/ SetEvictable_addEvictable_lock(t)
    \/ SetEvictable_addEvictable(t)
    \/ SetEvictable_removeEvictable_lock(t)
    \/ SetEvictable_removeEvictable(t)
    \/ Remove_lock(t)
    \/ Remove_body(t)
    \/ Remove_removeEvictable_lock(t)
    \/ Remove_removeEvictable(t)
    \/ Evict_lock(t)
    \/ Evict_body(t)
    \/ Size_lock(t)
    \/ Size_body(t)

\* fair scheduling: a thread inside a call that can take its next step again
\* and again (a lock it waits for is free again and again) takes it
FairConcSpec == ConcSpec /\ \A t \in Threads : SF_vars(Continue(t))

TypeOK ==
    /\ k_ \in 1..MaxK
    /\ current_timestamp_ \in Nat
    /\ pc \in [Threads -> STRING]
    /\ latch_store_ \in Threads \cup {NoThread}
    /\ latch_evictable_ \in Threads \cup {NoThread}
    /\ DOMAIN node_store_ \subseteq FrameIds \cup ConcFrameIds
    /\ DOMAIN update_eviction_ \subseteq DOMAIN node_store_
    /\ aborted \in BOOLEAN

(* ======================= the replacer that repositions ======================= *)
(* lru_k_replacer.cpp, lines 252-482: no pending-update map and no locks; an   *)
(* access on an evictable frame removes its key from the heap and pushes the   *)
(* new one.                                                                    *)

\* older(one, two), lines 272-290
older(one, two) ==
    IF one.kAccess_ # NoValue
    THEN IF two.kAccess_ # NoValue THEN one.kAccess_ < two.kAccess_ ELSE FALSE
    ELSE IF two.kAccess_ # NoValue THEN TRUE ELSE one.lAccess_ < two.lAccess_

\* a < b of LRUKAge::operator<, lines 293-296
Eager_Less(a, b) == older(b, a)

RECURSIVE Eager_InsertSorted(_, _)
Eager_InsertSorted(s, a) ==
    IF s = <<>> THEN <<a>>
    ELSE IF Eager_Less(Head(s), a) THEN <<a>> \o s
    ELSE <<Head(s)>> \o Eager_InsertSorted(Tail(s), a)

RECURSIVE Eager_make_heap(_)
Eager_make_heap(s) ==
    IF s = <<>> THEN <<>>
    ELSE Eager_InsertSorted(Eager_make_heap(Tail(s)), Head(s))

\* removeEvictable, lines 462-470
Eager_removeEvictable(ev, fid) ==
    LET at == FindFid(ev, fid)
        moved == [ev EXCEPT ![at] = ev[Len(ev)]]
        popped == PopBack(moved)
    IN IF popped # <<>> THEN Eager_make_heap(popped) ELSE popped

\* addEvictable, lines 472-480
Eager_addEvictable(ev, node, k) ==
    Eager_InsertSorted(ev,
        [fid_ |-> node.fid_,
         lAccess_ |-> Head(node.history_),
         kAccess_ |-> IF node.hCount_ < k THEN NoValue
                      ELSE node.history_[Len(node.history_)]])

\* RecordAccess, lines 352-379
Eager_RecordAccess(frame_id) ==
    LET accessTime == eager_current_timestamp_
        iniserted == frame_id \notin DOMAIN eager_node_store_
    IN /\ eager_current_timestamp_' = eager_current_timestamp_ + 1
       /\ IF iniserted
          THEN /\ eager_node_store_' =
                     eager_node_store_ @@ (frame_id :> LRUKNode(frame_id, accessTime))
               /\ UNCHANGED eager_evictable
          ELSE LET n == eager_node_store_[frame_id]
                   pushed == <<accessTime>> \o n.history_
                   node == IF n.hCount_ >= k_
                           THEN [n EXCEPT !.history_ = PopBack(pushed)]
                           ELSE [n EXCEPT !.history_ = pushed, !.hCount_ = n.hCount_ + 1]
               IN /\ eager_node_store_' = [eager_node_store_ EXCEPT ![frame_id] = node]
                  /\ eager_evictable' =
                        IF node.is_evictable_
                        THEN Eager_addEvictable(
                                Eager_removeEvictable(eager_evictable, frame_id), node, k_)
                        ELSE eager_evictable
       /\ eager_ret' = NoValue

\* SetEvictable, lines 398-421
Eager_SetEvictable(frame_id, set_evictable) ==
    /\ IF frame_id \notin DOMAIN eager_node_store_
       THEN UNCHANGED <<eager_node_store_, eager_evictable>>
       ELSE IF eager_node_store_[frame_id].is_evictable_ = set_evictable
       THEN UNCHANGED <<eager_node_store_, eager_evictable>>
       ELSE /\ eager_node_store_' =
                  [eager_node_store_ EXCEPT ![frame_id].is_evictable_ = set_evictable]
            /\ eager_evictable' =
                  IF set_evictable
                  THEN Eager_addEvictable(eager_evictable, eager_node_store_'[frame_id], k_)
                  ELSE Eager_removeEvictable(eager_evictable, frame_id)
    /\ eager_ret' = NoValue
    /\ UNCHANGED eager_current_timestamp_

\* Remove, lines 440-448; Eager_RemoveAsserts is its failing BUSTUB_ASSERT
Eager_RemoveAsserts(frame_id) == frame_id \notin DOMAIN eager_node_store_

Eager_Remove(frame_id) ==
    /\ IF Eager_RemoveAsserts(frame_id)
       THEN UNCHANGED <<eager_node_store_, eager_evictable>>
       ELSE /\ eager_evictable' =
                  IF eager_node_store_[frame_id].is_evictable_
                  THEN Eager_removeEvictable(eager_evictable, frame_id)
                  ELSE eager_evictable
            /\ eager_node_store_' = Erase(eager_node_store_, frame_id)
    /\ eager_ret' = NoValue
    /\ UNCHANGED eager_current_timestamp_

\* Evict, lines 322-337
Eager_Evict ==
    /\ IF eager_evictable = <<>>
       THEN /\ eager_ret' = NoValue
            /\ UNCHANGED <<eager_node_store_, eager_evictable>>
       ELSE LET to_evict == Head(eager_evictable)
            IN /\ eager_evictable' = Tail(eager_evictable)
               /\ eager_node_store_' = Erase(eager_node_store_, to_evict.fid_)
               /\ eager_ret' = to_evict.fid_
    /\ UNCHANGED eager_current_timestamp_

\* Size, lines 457-460
Eager_Size ==
    /\ eager_ret' = Len(eager_evictable)
    /\ UNCHANGED <<eager_node_store_, eager_evictable, eager_current_timestamp_>>

(* The two replacers side by side: constructed with the same arguments and  *)
(* given the same calls, one at a time.  A failed assertion in either ends  *)
(* the process.                                                             *)
estimatorVars == <<hllVars, prestoVars>>

Both_RecordAccess(frame_id) ==
    /\ current_timestamp_ < MaxTime
    /\ LRUKReplacer_RecordAccess(frame_id)
    /\ Eager_RecordAccess(frame_id)
    /\ UNCHANGED <<replacer_size_, estimatorVars>>

Both_SetEvictable(frame_id, set_evictable) ==
    /\ LRUKReplacer_SetEvictable(frame_id, set_evictable)
    /\ Eager_SetEvictable(frame_id, set_evictable)
    /\ UNCHANGED <<replacer_size_, estimatorVars>>

Both_Remove(frame_id) ==
    /\ ~aborted
    /\ IF Eager_RemoveAsserts(frame_id) /\ frame_id \in DOMAIN node_store_
       THEN /\ aborted' = TRUE
            /\ last' = Call("Remove", frame_id, FALSE, NoValue)
            /\ pre' = Snapshot
            /\ UNCHANGED <<k_, current_timestamp_, node_store_, update_eviction_,
                           evictable_, purged, issued, threadVars, eagerVars>>
       ELSE /\ LRUKReplacer_Remove(frame_id)
            /\ Eager_Remove(frame_id)
    /\ UNCHANGED <<replacer_size_, estimatorVars>>

Both_Evict ==
    /\ LRUKReplacer_Evict
    /\ Eager_Evict
    /\ UNCHANGED <<replacer_size_, estimatorVars>>

Both_Size ==
    /\ LRUKReplacer_Size
    /\ Eager_Size
    /\ UNCHANGED <<replacer_size_, estimatorVars>>

BothNext ==
    \/ \E f \in FrameIds : Both_RecordAccess(f)
    \/ \E f \in FrameIds, x \in BOOLEAN : Both_SetEvictable(f, x)
    \/ \E f \in FrameIds : Both_Remove(f)
    \/ Both_Evict
    \/ Both_Size

BothSpec == Init /\ [][BothNext]_vars


(* ======================= a fixed run ======================= *)
(* One replacer with K = 2: the accesses of ScenarioAccesses in that order, *)
(* then every accessed frame is marked evictable (in any order), then       *)
(* evict() is called until it has returned nothing once.                    *)
ScenarioAccesses == <<1, 2, 3, 4, 1, 2, 3, 1, 2, 1>>
ScenarioFrames == {ScenarioAccesses[i] : i \in 1..Len(ScenarioAccesses)}

ScenarioInit ==
    /\ k_ = 2
    /\ replacer_size_ \in {n \in 1..ScenarioMaxNumFrames : \A f \in ScenarioFrames : f <= n}
    /\ ReplacerInit
    /\ EagerInit
    /\ NoEstimators

Scenario_RecordAccess ==
    /\ current_timestamp_ < Len(ScenarioAccesses)
    /\ LRUKReplacer_RecordAccess(ScenarioAccesses[current_timestamp_ + 1])
    /\ UNCHANGED otherVars

Scenario_SetEvictable(frame_id) ==
    /\ current_timestamp_ = Len(ScenarioAccesses)
    /\ last.op # "Evict"
    /\ frame_id \in DOMAIN node_store_
    /\ ~node_store_[frame_id].is_evictable_
    /\ LRUKReplacer_SetEvictable(frame_id, TRUE)
    /\ UNCHANGED otherVars

Scenario_Evict ==
    /\ current_timestamp_ = Len(ScenarioAccesses)
    /\ \A f \in DOMAIN node_store_ : node_store_[f].is_evictable_
    /\ ~(last.op = "Evict" /\ last.ret = NoValue)
    /\ LRUKReplacer_Evict
    /\ UNCHANGED otherVars

ScenarioNext ==
    \/ Scenario_RecordAccess
    \/ \E f \in ScenarioFrames : Scenario_SetEvictable(f)
    \/ Scenario_Evict

ScenarioSpec == ScenarioInit /\ [][ScenarioNext]_vars


(* ======================= the cardinality estimators ======================= *)
(* HyperLogLog (hyperloglog.cpp as in lru_k_replacer.h, lines 205-305) and   *)
(* HyperLogLogPresto (lines 119-203).  A std::bitset<64> and a hash_t are    *)
(* the set of the positions of their one bits, position 0 being the least    *)
(* significant.  AddElem is given the hash of its key.                       *)
BITSET_CAPACITY == 64
DENSE_BUCKET_SIZE == 4
OVERFLOW_BUCKET_SIZE == 3
\* CONSTANT = 0.79402 = AlphaNumerator / AlphaDenominator
AlphaNumerator == 39701
AlphaDenominator == 50000

\* the hashes given to AddElem: every combination of these bit positions
HashBits == {0, 1, BITSET_CAPACITY - 2, BITSET_CAPACITY - 1}
Hashes == SUBSET HashBits

\* the n_bits given to the constructors
NBitsInputs == (-1..MaxBits) \cup {BITSET_CAPACITY + 1}

RECURSIVE Pow2(_)
Pow2(n) == IF n = 0 THEN 1 ELSE 2 * Pow2(n - 1)

\* std::max
Max2(a, b) == IF a < b THEN b ELSE a

\* the largest and the smallest element of a set of positions
MaxIn(S) == CHOOSE p \in S : \A q \in S : q <= p
MinIn(S) == CHOOSE p \in S : \A q \in S : p <= q

\* bset >> n
ShiftRight(bset, n) == {p - n : p \in {q \in bset : q >= n}}

\* bset.to_ulong()
RECURSIVE to_ulong(_)
to_ulong(bset) ==
    IF bset = {} THEN 0
    ELSE LET p == CHOOSE q \in bset : TRUE
         IN Pow2(p) + to_ulong(bset \ {p})

\* vector::resize( n, 0 ) of an empty vector, indexed from 0
Zeros(n) == [i \in 0..(n - 1) |-> 0]

\* what an estimator call was given, and whether it has returned
EstimatorCall(op, n_bits, hash, returned) ==
    [op |-> op, n_bits |-> n_bits, hash |-> hash, returned |-> returned]

EstimatorSnapshot ==
    [buckets_ |-> buckets_, dense_bucket_ |-> dense_bucket_,
     overflow_bucket_ |-> overflow_bucket_]

replacerVars == <<k_, current_timestamp_, node_store_, update_eviction_, evictable_,
                  purged, issued, threadVars, replacer_size_, eagerVars>>

\* no replacer has been constructed
NoReplacer ==
    /\ k_ = 0 /\ replacer_size_ = 0
    /\ current_timestamp_ = 0
    /\ node_store_ = EmptyMap
    /\ update_eviction_ = EmptyMap
    /\ evictable_ = <<>>
    /\ purged = {}
    /\ pc = [t \in Threads |-> "idle"]
    /\ frame = [t \in Threads |-> NoFrame]
    /\ latch_store_ = NoThread
    /\ latch_evictable_ = NoThread
    /\ issued = <<>>
    /\ EagerInit

(* ---------------- HyperLogLog ---------------- *)
\* the constructor, lines 227-232: n_bits_ and whether the assertion holds
HyperLogLog_n_bits(_n_bits) == Max2(0, _n_bits)
HyperLogLog_assert(n_bits) == n_bits <= BITSET_CAPACITY

\* PositionOfLeftmostOne, lines 251-260: the loop goes down from `from` with
\* an int pos and stops at the first one, which is the highest one at or
\* below `from`; without a one there it ends at pos = -1 and 0 is returned
PositionOfLeftmostOne(bset, n_bits) ==
    LET from == BITSET_CAPACITY - n_bits - 1
        ones == {pos \in bset : pos <= from}
    IN IF ones = {} THEN 0 ELSE from - MaxIn(ones) + 1

\* GetValue, lines 268-272: the assertion 255 > v, then the cast to uint8_t
GetValue_assert(bset, n_bits) == 255 > PositionOfLeftmostOne(bset, n_bits)
GetValue(bset, n_bits) == PositionOfLeftmostOne(bset, n_bits) % 256

GetRegister(bset, n_bits) == to_ulong(ShiftRight(bset, BITSET_CAPACITY - n_bits))

\* AddElem that stores the new value whatever the register holds
HyperLogLog_AddElem_noMax(buckets, bset, n_bits) ==
    LET pos == GetRegister(bset, n_bits)
        value == GetValue(bset, n_bits)
    IN [buckets EXCEPT ![pos] = value]

\* AddElem, lines 279-290: the buckets it leaves
HyperLogLog_AddElem(buckets, bset, n_bits) ==
    LET pos == GetRegister(bset, n_bits)
        value == GetValue(bset, n_bits)
    IN [buckets EXCEPT ![pos] = Max2(buckets[pos], value)]


\* the largest value in a vector of registers
MaxOf(regs) == CHOOSE v \in {regs[i] : i \in DOMAIN regs} : \A i \in DOMAIN regs : regs[i] <= v

\* the sum of 2^(R - register) over the registers from index i on
RECURSIVE SumPow2(_, _, _)
SumPow2(regs, R, i) ==
    IF i \notin DOMAIN regs THEN 0
    ELSE Pow2(R - regs[i]) + SumPow2(regs, R, i + 1)

\* ComputeCardinality with the number of registers where the code has its square
ComputeCardinality_sizeNotSquared(regs) ==
    LET size == Cardinality(DOMAIN regs)
        R == MaxOf(regs)
    IN (AlphaNumerator * size * Pow2(R)) \div (AlphaDenominator * SumPow2(regs, R, 0))

\* ComputeCardinality, lines 295-300: floor( CONSTANT * size^2 / devider ),
\* devider being the sum of 2^(-register); numerator and denominator are
\* multiplied by 2^R, R the largest register, to stay within the integers
ComputeCardinality(regs) ==
    LET size == Cardinality(DOMAIN regs)
        R == MaxOf(regs)
    IN (AlphaNumerator * size * size * Pow2(R)) \div (AlphaDenominator * SumPow2(regs, R, 0))

(* ---------------- HyperLogLogPresto ---------------- *)
\* ExtractValue, lines 124-141: the loop goes up from position 0 and stops
\* at the first one below value_capacity, or at value_capacity
ExtractValue(hash, n_leading_bits) ==
    LET value_capacity == BITSET_CAPACITY - n_leading_bits
        ones == {pos \in hash : pos < value_capacity}
    IN [bucket |-> IF value_capacity < BITSET_CAPACITY
                   THEN to_ulong(ShiftRight(hash, value_capacity)) ELSE 0,
        value |-> IF ones = {} THEN value_capacity ELSE MinIn(ones)]

\* GetValue, lines 163-174, the result being a u_int8_t
HyperLogLogPresto_GetValue(dense, overflow, bucket) ==
    (dense[bucket] + (IF bucket \in DOMAIN overflow
                      THEN overflow[bucket] * Pow2(DENSE_BUCKET_SIZE) ELSE 0)) % 256

\* PutValue that stores the low bits and drops the high ones
HyperLogLogPresto_PutValue_denseOnly(dense, overflow, bucket, value) ==
    [dense_bucket_ |-> [dense EXCEPT ![bucket] = value % Pow2(DENSE_BUCKET_SIZE)],
     overflow_bucket_ |-> overflow]

\* PutValue, lines 176-186: the dense and the overflow buckets it leaves
HyperLogLogPresto_PutValue(dense, overflow, bucket, value) ==
    LET high == value \div Pow2(DENSE_BUCKET_SIZE)
    IN [dense_bucket_ |-> [dense EXCEPT ![bucket] = value % Pow2(DENSE_BUCKET_SIZE)],
        overflow_bucket_ |->
            IF high # 0
            THEN (bucket :> (high % Pow2(OVERFLOW_BUCKET_SIZE))) @@ overflow
            ELSE overflow]

\* AddElem that stores the value without comparing it with the stored one
HyperLogLogPresto_AddElem_noCompare(dense, overflow, hash, n_leading_bits) ==
    LET e == ExtractValue(hash, n_leading_bits)
    IN HyperLogLogPresto_PutValue(dense, overflow, e.bucket, e.value)

\* AddElem, lines 149-161
HyperLogLogPresto_AddElem(dense, overflow, hash, n_leading_bits) ==
    LET e == ExtractValue(hash, n_leading_bits)
    IN IF e.value > HyperLogLogPresto_GetValue(dense, overflow, e.bucket)
       THEN HyperLogLogPresto_PutValue(dense, overflow, e.bucket, e.value)
       ELSE [dense_bucket_ |-> dense, overflow_bucket_ |-> overflow]

\* the value GetValue reads for every bucket
PrestoRegisters(dense, overflow) ==
    [i \in DOMAIN dense |-> HyperLogLogPresto_GetValue(dense, overflow, i)]

(* ---------------- one estimator of each kind, given the same keys ---------------- *)
\* both constructors with the same argument; HyperLogLog asserts
\* n_bits_ <= BITSET_CAPACITY, and above it neither resize can succeed
EstimatorsInit ==
    \E n \in NBitsInputs :
        /\ NoReplacer
        /\ n_bits_ = HyperLogLog_n_bits(n)
        /\ n_leading_bits_ = Max2(0, n)
        /\ aborted = ~HyperLogLog_assert(n_bits_)
        /\ buckets_ = IF HyperLogLog_assert(n_bits_) THEN Zeros(Pow2(n_bits_)) ELSE <<>>
        /\ dense_bucket_ = IF HyperLogLog_assert(n_bits_) THEN Zeros(Pow2(n_leading_bits_)) ELSE <<>>
        /\ overflow_bucket_ = EmptyMap
        /\ cardinality_ = 0
        /\ presto_cardinality_ = 0
        /\ offered = dense_bucket_
        /\ last = EstimatorCall("new", n, {}, HyperLogLog_assert(n_bits_))
        /\ pre = [buckets_ |-> <<>>, dense_bucket_ |-> <<>>, overflow_bucket_ |-> EmptyMap]

Estimators_AddElem(hash) ==
    /\ ~aborted /\ last.returned
    /\ IF GetValue_assert(hash, n_bits_)
       THEN /\ buckets_' = HyperLogLog_AddElem(buckets_, hash, n_bits_)
            /\ LET r == HyperLogLogPresto_AddElem(dense_bucket_, overflow_bucket_,
                                                  hash, n_leading_bits_)
               IN /\ dense_bucket_' = r.dense_bucket_
                  /\ overflow_bucket_' = r.overflow_bucket_
            /\ LET e == ExtractValue(hash, n_leading_bits_)
               IN offered' = [offered EXCEPT ![e.bucket] = Max2(@, e.value)]
            /\ UNCHANGED aborted
       ELSE /\ aborted' = TRUE
            /\ UNCHANGED <<buckets_, dense_bucket_, overflow_bucket_, offered>>
    /\ last' = EstimatorCall("AddElem", last.n_bits, hash, GetValue_assert(hash, n_bits_))
    /\ pre' = EstimatorSnapshot
    /\ UNCHANGED <<n_bits_, cardinality_, n_leading_bits_, presto_cardinality_, replacerVars>>

\* ComputeCardinality of both estimators; the call is modelled while every
\* register is at most MaxExponent, where the double arithmetic of the code
\* is exact up to the final floor
Estimators_ComputeCardinality ==
    /\ ~aborted /\ last.returned
    /\ MaxOf(buckets_) <= MaxExponent
    /\ MaxOf(PrestoRegisters(dense_bucket_, overflow_bucket_)) <= MaxExponent
    /\ cardinality_' = ComputeCardinality(buckets_)
    /\ presto_cardinality_' =
          ComputeCardinality(PrestoRegisters(dense_bucket_, overflow_bucket_))
    /\ last' = EstimatorCall("ComputeCardinality", last.n_bits, {}, TRUE)
    /\ pre' = EstimatorSnapshot
    /\ UNCHANGED <<n_bits_, buckets_, n_leading_bits_, dense_bucket_, overflow_bucket_,
                   offered, aborted, replacerVars>>

EstimatorNext ==
    \/ \E h \in Hashes : Estimators_AddElem(h)
    \/ Estimators_ComputeCardinality

EstimatorSpec == EstimatorsInit /\ [][EstimatorNext]_vars


(* ---------------- HyperLogLog as in hyperloglog.cpp (part_001) ---------------- *)
\* how a call ends: it returns a value, the process is ended, or the call
\* never returns
Returns(v) == [ends |-> "return", value |-> v]
Aborts == [ends |-> "abort", value |-> 0]
NeverReturns == [ends |-> "never", value |-> 0]

\* the constructor, lines 9-15: n_bits_ is the argument as given, and
\* pow( 2, n_bits_ ) below 1 is converted to the size 0
Part001_n_bits(_n_bits) == _n_bits
Part001_size(n_bits) == IF n_bits < 0 THEN 0 ELSE Pow2(n_bits)

\* PositionOfLeftmostOne, lines 22-32.  pos is a size_t, so pos >= 0 always
\* holds: the loop goes down from `from`, and below 0 it continues at
\* 2^64 - 1.  bset[pos] with pos >= 64 is undefined: a build with the
\* library's assertions ends the process there; otherwise the one word of
\* the bitset is read at bit pos % 64, so the loop stops at the highest one
\* of the whole bitset, at pos = 2^64 - 64 + p, and returns
\* from - pos + 1 = from + 65 - p modulo 2^64; with no one at all it never
\* stops.
Part001_PositionOfLeftmostOne(bset, n_bits) ==
    LET from == BITSET_CAPACITY - n_bits - 1
        hits == {pos \in 0..from : (pos % BITSET_CAPACITY) \in bset}
        unchecked == IF hits # {} THEN Returns(from - MaxIn(hits) + 1)
                     ELSE IF bset # {} THEN Returns(from + BITSET_CAPACITY + 1 - MaxIn(bset))
                     ELSE NeverReturns
        readsOutside == from >= BITSET_CAPACITY \/ hits = {}
    IN IF readsOutside THEN {Aborts, unchecked} ELSE {unchecked}

\* GetValue, lines 34-39
Part001_GetValue(bset, n_bits) ==
    {IF v.ends = "return"
     THEN (IF 255 > v.value THEN Returns(v.value % 256) ELSE Aborts)
     ELSE v : v \in Part001_PositionOfLeftmostOne(bset, n_bits)}

\* AddElem, lines 46-58; buckets_[ pos ] of an empty vector is an access
\* through a null pointer, which ends the process
Part001_AddElem(hash) ==
    /\ ~aborted /\ last.returned
    /\ \E v \in Part001_GetValue(hash, n_bits_) :
          LET pos == GetRegister(hash, n_bits_)
              stored == v.ends = "return" /\ pos \in DOMAIN buckets_
          IN /\ buckets_' = IF stored
                            THEN [buckets_ EXCEPT ![pos] = Max2(buckets_[pos], v.value)]
                            ELSE buckets_
             /\ aborted' = (v.ends = "abort" \/ (v.ends = "return" /\ ~stored))
             /\ last' = EstimatorCall("AddElem", last.n_bits, hash, stored)
    /\ pre' = EstimatorSnapshot
    /\ UNCHANGED <<n_bits_, cardinality_, prestoVars, replacerVars>>

\* the value of cardinality_ after the conversion of a NaN to size_t
Indeterminate == -1

\* ComputeCardinality, lines 60-66; with no register it divides 0 by 0 and
\* converts the NaN to size_t, which is undefined
Part001_ComputeCardinality ==
    /\ ~aborted /\ last.returned
    /\ IF buckets_ = <<>>
       THEN cardinality_' \in {0, Indeterminate}
       ELSE /\ MaxOf(buckets_) <= MaxExponent
            /\ cardinality_' = ComputeCardinality(buckets_)
    /\ last' = EstimatorCall("ComputeCardinality", last.n_bits, {}, TRUE)
    /\ pre' = EstimatorSnapshot
    /\ UNCHANGED <<n_bits_, buckets_, aborted, prestoVars, replacerVars>>

Part001Init ==
    \E n \in NBitsInputs :
        /\ NoReplacer
        /\ n_bits_ = Part001_n_bits(n)
        /\ aborted = ~HyperLogLog_assert(n_bits_)
        /\ buckets_ = IF HyperLogLog_assert(n_bits_) THEN Zeros(Part001_size(n_bits_)) ELSE <<>>
        /\ cardinality_ = 0
        /\ n_leading_bits_ = 0
        /\ dense_bucket_ = <<>>
        /\ overflow_bucket_ = EmptyMap
        /\ presto_cardinality_ = 0
        /\ offered = dense_bucket_
        /\ last = EstimatorCall("new", n, {}, HyperLogLog_assert(n_bits_))
        /\ pre = [buckets_ |-> <<>>, dense_bucket_ |-> <<>>, overflow_bucket_ |-> EmptyMap]

Part001Next ==
    \/ \E h \in Hashes : Part001_AddElem(h)
    \/ Part001_ComputeCardinality

Part001Spec == Part001Init /\ [][Part001Next]_vars

(* ======================= properties ======================= *)
EvictableFrames(store) == {f \in DOMAIN store : store[f].is_evictable_}
HeapFids(ev) == {ev[i].fid_ : i \in 1..Len(ev)}

\* backward K-distance of a node from its current history: infinite with
\* fewer than k accesses, else now minus the k-th most recent timestamp
HasInfDistance(node, k) == Len(node.history_) < k
KthRecent(node, k) == node.history_[k]
Distance(node, k, now) == now - KthRecent(node, k)
StrictlyLargerDistance(a, b, k, now) ==
    IF HasInfDistance(a, k) THEN ~HasInfDistance(b, k)
    ELSE ~HasInfDistance(b, k) /\ Distance(a, k, now) > Distance(b, k, now)

Evicted == last.op = "Evict" /\ last.ret # NoValue

\* C1: evict() returns a frame such that no other evictable frame has a
\* strictly larger backward K-distance, the distances being computed from
\* the frames' access histories at the moment of the call.
C1_EvictLargestDistance ==
    Evicted =>
        \A g \in EvictableFrames(pre.node_store_) \ {last.ret} :
            ~StrictlyLargerDistance(pre.node_store_[g], pre.node_store_[last.ret],
                                    k_, pre.current_timestamp_)
Back(seq) == seq[Len(seq)]
InfEvictable(store, k) == {f \in EvictableFrames(store) : HasInfDistance(store[f], k)}

\* C2: when evictable frames with fewer than K accesses exist, evict()
\* returns the one among them whose oldest recorded timestamp (the back of
\* its history) is smallest, also when some were accessed more than once.
C2_InfTieOldestTimestamp ==
    (Evicted /\ InfEvictable(pre.node_store_, k_) # {}) =>
        /\ last.ret \in InfEvictable(pre.node_store_, k_)
        /\ \A g \in InfEvictable(pre.node_store_, k_) :
              Back(pre.node_store_[last.ret].history_) <= Back(pre.node_store_[g].history_)
\* C3: after every completed call the size equals the number of tracked
\* frames whose evictable flag is true, and Size() returns that number.
C3_SizeConsistency ==
    /\ Len(evictable_) = Cardinality(EvictableFrames(node_store_))
    /\ last.op = "Size" => last.ret = Cardinality(EvictableFrames(pre.node_store_))

C3_Witness ==
    /\ last.op = "Size"
    /\ last.ret = 2
    /\ purged # {}
    /\ DOMAIN pre.update_eviction_ # {}

\* C4: evict() returns only a frame that is tracked and whose evictable
\* flag is true when the call starts.
C4_EvictOnlyEvictable ==
    Evicted => last.ret \in EvictableFrames(pre.node_store_)

\* an eviction that passed over a tracked, non-evictable frame with a
\* strictly larger backward K-distance than the victim
C4_Witness ==
    /\ Evicted
    /\ \E g \in DOMAIN pre.node_store_ :
          /\ ~pre.node_store_[g].is_evictable_
          /\ Len(pre.node_store_[g].history_) >= k_
          /\ StrictlyLargerDistance(pre.node_store_[g], pre.node_store_[last.ret],
                                    k_, pre.current_timestamp_)

RemoveCalled == last.op = "Remove"

\* C5: remove(f) on a tracked, non-evictable frame is a fatal assertion
\* failure and deletes neither the node nor its history.
C5_RemoveNonEvictableAborts ==
    (RemoveCalled /\ last.fid \in DOMAIN pre.node_store_
                  /\ ~pre.node_store_[last.fid].is_evictable_) =>
        (aborted /\ node_store_ = pre.node_store_)

\* C6: remove(f) on an untracked frame returns normally and changes nothing.
C6_RemoveUntrackedNoOp ==
    (RemoveCalled /\ last.fid \notin DOMAIN pre.node_store_) =>
        (~aborted /\ Snapshot = pre)

Gone(f) ==
    /\ f \notin DOMAIN node_store_
    /\ f \notin HeapFids(evictable_)
    /\ f \notin DOMAIN update_eviction_

\* C7: remove(f) and an evict() returning f leave nothing of f behind, and
\* a following record_access(f) creates a fresh node: one timestamp, access
\* count 1, not evictable, no heap entry and no pending key update.
C7_RemovalPurgesHistory ==
    /\ (RemoveCalled /\ ~aborted) => Gone(last.fid)
    /\ Evicted => Gone(last.ret)
    /\ (last.op = "RecordAccess" /\ last.fid \notin DOMAIN pre.node_store_) =>
          /\ node_store_[last.fid] = LRUKNode(last.fid, pre.current_timestamp_)
          /\ last.fid \notin HeapFids(evictable_)
          /\ last.fid \notin DOMAIN update_eviction_

\* a frame that was removed or evicted earlier is accessed again while
\* another frame has a pending key update
C7_Witness ==
    /\ last.op = "RecordAccess"
    /\ last.fid \in purged
    /\ last.fid \notin DOMAIN pre.node_store_
    /\ DOMAIN update_eviction_ # {}

SetEvictableNoChangeCase ==
    /\ last.op = "SetEvictable"
    /\ \/ last.fid \notin DOMAIN pre.node_store_
       \/ pre.node_store_[last.fid].is_evictable_ = last.flag

\* C8: set_evictable(f, x) changes nothing when f is untracked or its flag
\* already equals x; after any set_evictable(f, x) a tracked f has flag x and
\* an untracked f stays untracked, so a second call is such a no-op.
C8_SetEvictableIdempotent ==
    /\ SetEvictableNoChangeCase => (Snapshot = pre /\ ~aborted)
    /\ last.op = "SetEvictable" =>
          /\ DOMAIN node_store_ = DOMAIN pre.node_store_
          /\ last.fid \in DOMAIN node_store_ =>
                node_store_[last.fid].is_evictable_ = last.flag

\* set_evictable(f, true) on a frame that is already evictable and has a
\* pending key update
C8_Witness ==
    /\ SetEvictableNoChangeCase
    /\ last.flag
    /\ last.fid \in DOMAIN pre.update_eviction_
Min(S) == CHOOSE x \in S : \A y \in S : x <= y
Elems(seq) == {seq[i] : i \in 1..Len(seq)}
RECURSIVE WithoutValue(_, _)
WithoutValue(seq, v) ==
    IF seq = <<>> THEN <<>>
    ELSE IF Head(seq) = v THEN Tail(seq)
    ELSE <<Head(seq)>> \o WithoutValue(Tail(seq), v)

HistoryBound ==
    \A f \in DOMAIN node_store_ :
        /\ Len(node_store_[f].history_) \in 1..k_
        /\ node_store_[f].hCount_ = Len(node_store_[f].history_)

AccessOnFullHistory ==
    /\ last.op = "RecordAccess"
    /\ last.fid \in DOMAIN pre.node_store_
    /\ Len(pre.node_store_[last.fid].history_) = k_

\* C9: every tracked frame's history holds between 1 and K timestamps and
\* hCount_ equals its length; an access recorded on a frame that holds K
\* timestamps drops exactly the oldest of them.
C9_HistoryBoundDropsOldest ==
    /\ HistoryBound
    /\ AccessOnFullHistory =>
          LET old == pre.node_store_[last.fid].history_
          IN node_store_[last.fid].history_ =
                <<last.ret>> \o WithoutValue(old, Min(Elems(old)))

InFlight == {t \in Threads : pc[t] \in {"RecordAccess_lock", "RecordAccess_body"}}

DistinctIssued ==
    \A i, j \in 1..Len(issued) : i # j => issued[i] # issued[j]

\* the timestamps held by running RecordAccess calls and by the histories
DistinctHeld ==
    /\ \A t1, t2 \in InFlight : t1 # t2 => frame[t1].accessTime # frame[t2].accessTime
    /\ \A t \in InFlight : \A f \in DOMAIN node_store_ :
          frame[t].accessTime \notin Elems(node_store_[f].history_)
    /\ \A f, g \in DOMAIN node_store_ :
          \A i \in 1..Len(node_store_[f].history_), j \in 1..Len(node_store_[g].history_) :
             (f # g \/ i # j) => node_store_[f].history_[i] # node_store_[g].history_[j]

\* C10: no two record_access events get the same timestamp, whether the
\* calls run one after the other or at the same time, on one frame or on
\* several, and the timestamp counter never decreases.
C10_UniqueMonotonicTimestamps ==
    /\ [](DistinctIssued /\ DistinctHeld)
    /\ [][current_timestamp_' >= current_timestamp_]_vars

\* two RecordAccess calls hold their timestamps at the same time, before
\* either has taken the store lock, and a third access was recorded earlier
C10_Witness ==
    /\ \A t \in {1, 2} : pc[t] = "RecordAccess_lock"
    /\ frame[1].accessTime > frame[2].accessTime
    /\ node_store_ # EmptyMap

\* the heap evict() extracts its maximum from: evictable_ with the pending
\* updates applied
HeapAtEvict == EvictHeap(pre.evictable_, pre.update_eviction_)

\* C11: when evict() extracts the maximum, the key it holds for every
\* evictable frame equals the key derived from that frame's history as it
\* is when the call starts, however many accesses were recorded on the
\* frame since the previous evict().
C11_EvictSeesCurrentKeys ==
    Evicted =>
        \A i \in 1..Len(HeapAtEvict) :
            HeapAtEvict[i] = fromNode(pre.node_store_[HeapAtEvict[i].fid_], k_)

\* what the call completed last returned to the caller, from each replacer
LazyReturned == IF last.op \in {"Evict", "Size"} THEN last.ret ELSE NoValue

\* C12: given the same calls one at a time, the replacer with the
\* pending-update map and the replacer that repositions the key on every
\* access return the same evict() results and the same size() values.
C12_EagerLazyEquivalent ==
    ~aborted => LazyReturned = eager_ret

ScenarioExpected == <<4, 3, 2, 1, NoValue>>
EvictCallsDone == Cardinality(purged) + (IF last.ret = NoValue THEN 1 ELSE 0)

\* C13: with K = 2, after the accesses 1,2,3,4,1,2,3,1,2,1 and after frames
\* 1 to 4 were marked evictable, five evict() calls in a row return 4, 3, 2,
\* 1 and then nothing.
C13_ScenarioR1 ==
    last.op = "Evict" => last.ret = ScenarioExpected[EvictCallsDone]

\* the fifth evict() has returned
C13_Witness ==
    /\ last.op = "Evict"
    /\ EvictCallsDone = Len(ScenarioExpected)

\* the locks a thread is waiting for at its next step
WantsStore(t) ==
    pc[t] \in {"RecordAccess_lock", "SetEvictable_lock", "Remove_lock", "Evict_lock"}
WantsEvictable(t) ==
    pc[t] \in {"Evict_lock", "Size_lock", "addEvictable", "removeEvictable",
               "Remove_removeEvictable"}
WaitsFor(t, u) ==
    /\ t # u
    /\ \/ WantsStore(t) /\ latch_store_ = u
       \/ WantsEvictable(t) /\ latch_evictable_ = u
Deadlocked(D) == D # {} /\ \A t \in D : \E u \in D : WaitsFor(t, u)
NoDeadlock == \A D \in SUBSET Threads : ~Deadlocked(D)

Completes(t) == (pc[t] # "idle") ~> (pc[t] = "idle")

\* every call that was started returns, or the process was ended by a failed
\* assertion
CompletesUnlessAborted ==
    \A t \in Threads : (pc[t] # "idle") ~> (pc[t] = "idle" \/ aborted)

\* C14: with several threads calling record_access, set_evictable, remove,
\* evict and size, no state is reached in which threads wait for locks held
\* by one another, and under fair scheduling every call that was started
\* returns.
C14_NoDeadlockAndCompletion ==
    /\ []NoDeadlock
    /\ \A t \in Threads : Completes(t)

InvalidFrameId(f) == f > replacer_size_

\* C15: record_access with a frame id larger than replacer_size_ is rejected
\* by an exception or an abort and creates no node, so every tracked frame
\* id is within the range num_frames allows.
C15_RecordAccessRejectsInvalidId ==
    /\ (last.op = "RecordAccess" /\ InvalidFrameId(last.fid)) =>
          (aborted /\ node_store_ = pre.node_store_)
    /\ \A f \in DOMAIN node_store_ : ~InvalidFrameId(f)

AddElemCalled == last.op = "AddElem"

\* the bucket index: the top b bits of the hash
TopBits(hash, b) == to_ulong(ShiftRight(hash, BITSET_CAPACITY - b))

\* rho: 1 + the index of the leftmost one of the low (64 - b) bits, counted
\* from the most significant bit of that field; 0 when the field is zero
Rho(hash, b) ==
    LET field == {p \in hash : p < BITSET_CAPACITY - b}
    IN IF field = {} THEN 0 ELSE 1 + ((BITSET_CAPACITY - b - 1) - MaxIn(field))

\* C16: HyperLogLog AddElem returns for every hash and every b in 0..64 and
\* sets register j to max(register j, rho), j being the top b bits of the
\* hash; rho is 0, and the register unchanged, when the field is zero.
C16_AddElemSetsRegisterToMaxRho ==
    (AddElemCalled /\ last.n_bits \in 0..BITSET_CAPACITY) =>
        /\ last.returned
        /\ ~aborted
        /\ buckets_ = [pre.buckets_ EXCEPT ![TopBits(last.hash, last.n_bits)] =
                          Max2(@, Rho(last.hash, last.n_bits))]

\* the logical register of HyperLogLogPresto: dense(i) | (overflow(i) << DENSE_BITS)
LogicalRegister(dense, overflow, i) ==
    dense[i] + (IF i \in DOMAIN overflow THEN overflow[i] * Pow2(DENSE_BUCKET_SIZE) ELSE 0)

AddElemReturned == AddElemCalled /\ last.returned /\ ~aborted

\* C17: for both estimators AddElem never decreases a logical register: every
\* register is at least what it was before the call, and the registers of
\* the buckets other than the key's are unchanged.
C17_AddElemNeverDecreases ==
    AddElemReturned =>
        /\ \A i \in DOMAIN buckets_ :
              /\ buckets_[i] >= pre.buckets_[i]
              /\ i # TopBits(last.hash, n_bits_) => buckets_[i] = pre.buckets_[i]
        /\ \A i \in DOMAIN dense_bucket_ :
              /\ LogicalRegister(dense_bucket_, overflow_bucket_, i) >=
                    LogicalRegister(pre.dense_bucket_, pre.overflow_bucket_, i)
              /\ i # TopBits(last.hash, n_leading_bits_) =>
                    LogicalRegister(dense_bucket_, overflow_bucket_, i) =
                       LogicalRegister(pre.dense_bucket_, pre.overflow_bucket_, i)

\* an AddElem whose value is positive and smaller than the register of its
\* bucket, in both estimators, while another bucket holds a value
C17_Witness ==
    /\ AddElemReturned
    /\ LET j == TopBits(last.hash, n_bits_)
           v == ExtractValue(last.hash, n_leading_bits_).value
       IN /\ 0 < Rho(last.hash, n_bits_)
          /\ Rho(last.hash, n_bits_) < pre.buckets_[j]
          /\ 0 < v
          /\ v < LogicalRegister(pre.dense_bucket_, pre.overflow_bucket_, j)
          /\ \E i \in DOMAIN buckets_ \ {j} :
                /\ buckets_[i] > 0
                /\ LogicalRegister(dense_bucket_, overflow_bucket_, i) > 0

\* the registers of both estimators after AddElem of a key with this hash
AfterAddElem(regs, hash) ==
    LET p == HyperLogLogPresto_AddElem(regs.dense_bucket_, regs.overflow_bucket_,
                                       hash, n_leading_bits_)
    IN [buckets_ |-> HyperLogLog_AddElem(regs.buckets_, hash, n_bits_),
        dense_bucket_ |-> p.dense_bucket_,
        overflow_bucket_ |-> p.overflow_bucket_]

\* C18: for both estimators the registers after adding a sequence of keys
\* are the same for every order of the sequence and do not change when a key
\* is added again, and the cardinality is computed from the registers alone.
\* Stated for the call completed last and any next key: adding the two in
\* either order from the state before gives the same registers, and adding
\* the last key again changes nothing.
C18_OrderIndependentIdempotent ==
    /\ AddElemReturned =>
          /\ AfterAddElem(EstimatorSnapshot, last.hash) = EstimatorSnapshot
          /\ \A h \in Hashes :
                AfterAddElem(EstimatorSnapshot, h) = AfterAddElem(AfterAddElem(pre, h), last.hash)
    /\ (last.op = "ComputeCardinality" /\ last.n_bits <= BITSET_CAPACITY) =>
          /\ cardinality_ = ComputeCardinality(buckets_)
          /\ presto_cardinality_ =
                ComputeCardinality(PrestoRegisters(dense_bucket_, overflow_bucket_))

\* an AddElem that changed a register of both estimators, which other keys
\* of the same bucket would raise further
C18_Witness ==
    /\ AddElemReturned
    /\ n_bits_ >= 1
    /\ buckets_ # pre.buckets_
    /\ dense_bucket_ # pre.dense_bucket_
    /\ \E h \in Hashes :
          /\ TopBits(h, n_bits_) = TopBits(last.hash, n_bits_)
          /\ AfterAddElem(EstimatorSnapshot, h).buckets_ # buckets_
    /\ \E h \in Hashes :
          /\ TopBits(h, n_bits_) = TopBits(last.hash, n_bits_)
          /\ AfterAddElem(EstimatorSnapshot, h).dense_bucket_ # dense_bucket_

ComputeCardinalityCalled == last.op = "ComputeCardinality"

AllRegistersZero ==
    /\ \A i \in DOMAIN buckets_ : buckets_[i] = 0
    /\ \A i \in DOMAIN dense_bucket_ : dense_bucket_[i] = 0
    /\ overflow_bucket_ = EmptyMap

\* C19 as stated: an estimator whose registers are all zero, as they are
\* when nothing was added, reports cardinality 0 after ComputeCardinality,
\* for every bucket width.
C19_FreshEstimatorReportsZero ==
    (ComputeCardinalityCalled /\ AllRegistersZero) =>
        (cardinality_ = 0 /\ presto_cardinality_ = 0)

\* C19: an estimator whose registers are all zero reports
\* floor(0.79402 * 2^b) after ComputeCardinality, b being its bucket width;
\* this is 0 for b = 0 only.
C19_FreshEstimatorReportsAlphaM ==
    (ComputeCardinalityCalled /\ AllRegistersZero) =>
        /\ cardinality_ = (AlphaNumerator * Pow2(n_bits_)) \div AlphaDenominator
        /\ presto_cardinality_ = (AlphaNumerator * Pow2(n_leading_bits_)) \div AlphaDenominator
        /\ cardinality_ = 0 <=> n_bits_ = 0
        /\ presto_cardinality_ = 0 <=> n_leading_bits_ = 0

\* ComputeCardinality on estimators with more than one register, all zero
C19_Witness ==
    /\ ComputeCardinalityCalled
    /\ AllRegistersZero
    /\ n_bits_ >= 1
    /\ n_leading_bits_ >= 1

\* the constructor was given an n_bits outside 0..64
NBitsOutOfRange == last.n_bits \notin 0..BITSET_CAPACITY

\* C20: an estimator constructed with an n_bits outside 0..64 has it clamped:
\* a negative n_bits gives one register and every AddElem lands in bucket 0
\* as with n_bits = 0, a value above 64 gives n_bits_ = 64, and neither the
\* construction nor a later AddElem fails an assertion or accesses a
\* register out of range.
C20_NBitsClamped ==
    NBitsOutOfRange =>
        /\ ~aborted
        /\ last.returned
        /\ last.n_bits < 0 =>
              /\ DOMAIN buckets_ = {0}
              /\ AddElemCalled =>
                    buckets_[0] = Max2(pre.buckets_[0], Rho(last.hash, 0))
        /\ last.n_bits > BITSET_CAPACITY => n_bits_ = BITSET_CAPACITY

\* the largest value DENSE_BITS + OVERFLOW_BITS bits can hold
MaxStoredValue == Pow2(DENSE_BUCKET_SIZE + OVERFLOW_BUCKET_SIZE) - 1

\* C21: in HyperLogLogPresto, after any sequence of AddElem calls, the value
\* read back for every bucket as dense | (overflow << DENSE_BITS) is the
\* largest value offered to that bucket so far; a bucket has an overflow
\* entry only when the high bits of that value are not zero, and no stored
\* value exceeds what DENSE_BITS + OVERFLOW_BITS bits hold.
C21_ReadBackIsLargestOffered ==
    ~aborted =>
        \A j \in DOMAIN dense_bucket_ :
            /\ LogicalRegister(dense_bucket_, overflow_bucket_, j) = offered[j]
            /\ HyperLogLogPresto_GetValue(dense_bucket_, overflow_bucket_, j) = offered[j]
            /\ j \in DOMAIN overflow_bucket_ =>
                  offered[j] \div Pow2(DENSE_BUCKET_SIZE) # 0
            /\ dense_bucket_[j] < Pow2(DENSE_BUCKET_SIZE)
            /\ j \in DOMAIN overflow_bucket_ =>
                  overflow_bucket_[j] < Pow2(OVERFLOW_BUCKET_SIZE)
            /\ LogicalRegister(dense_bucket_, overflow_bucket_, j) <= MaxStoredValue

\* an AddElem offered a smaller value to a bucket that holds the largest
\* value a hash can give, with its high bits in the overflow entry, while
\* another bucket holds a value without high bits
C21_Witness ==
    /\ AddElemReturned
    /\ LET e == ExtractValue(last.hash, n_leading_bits_)
       IN /\ e.bucket \in DOMAIN overflow_bucket_
          /\ offered[e.bucket] = BITSET_CAPACITY - n_leading_bits_
          /\ 0 < e.value
          /\ e.value < Pow2(DENSE_BUCKET_SIZE)
          /\ \E i \in DOMAIN dense_bucket_ \ DOMAIN overflow_bucket_ : offered[i] > 0

\* the number of trailing zero bits in the low (64 - b) bits of the hash
TrailingZeros(hash, b) ==
    LET field == {p \in hash : p < BITSET_CAPACITY - b}
    IN IF field = {} THEN BITSET_CAPACITY - b ELSE MinIn(field)

\* the bucket index and the value AddElem took from the hash given last
PrestoBucketIsTopBits ==
    AddElemReturned =>
        ExtractValue(last.hash, n_leading_bits_).bucket = TopBits(last.hash, n_leading_bits_)
PrestoValueIsTrailingZeros ==
    AddElemReturned =>
        ExtractValue(last.hash, n_leading_bits_).value =
            TrailingZeros(last.hash, n_leading_bits_)

\* C22: in HyperLogLogPresto AddElem the candidate computed from a hash is
\* the number of trailing zero bits in its low (64 - b) bits plus 1, offered
\* to the bucket whose index is the top b bits.
C22_PrestoCandidateIsTrailingZerosPlusOne ==
    AddElemReturned =>
        LET j == TopBits(last.hash, n_leading_bits_)
            v == TrailingZeros(last.hash, n_leading_bits_) + 1
        IN /\ ExtractValue(last.hash, n_leading_bits_) = [bucket |-> j, value |-> v]
           /\ LogicalRegister(dense_bucket_, overflow_bucket_, j) =
                 Max2(LogicalRegister(pre.dense_bucket_, pre.overflow_bucket_, j), v)

\* what the next step of a thread reads or writes, from the code of the
\* critical section it is in: the evictable set, the pending-update map,
\* the node store with the nodes' histories and flags
TouchesEvictableSet(t) ==
    pc[t] \in {"addEvictable_body", "removeEvictable_body", "Remove_removeEvictable_body",
               "Evict_body", "Size_body"}
TouchesUpdateMap(t) ==
    \/ pc[t] \in {"removeEvictable_body", "Remove_removeEvictable_body", "Evict_body"}
    \/ /\ pc[t] = "RecordAccess_body"
       /\ frame[t].fid \in DOMAIN node_store_
       /\ node_store_[frame[t].fid].is_evictable_
TouchesStore(t) ==
    pc[t] \in {"RecordAccess_body", "SetEvictable_body", "addEvictable_body", "Remove_body",
               "Remove_removeEvictable_body", "Evict_body"}

\* the thread that takes the step
Steps(t) == pc'[t] # pc[t]

\* C23: in every interleaving each read or write of the evictable set and of
\* the pending-update map is made by a thread that holds the evictable lock
\* at that step, and each read or write of the node store, a history or a
\* flag by a thread that holds the store lock.
C23_LockDiscipline ==
    /\ [](\A t \in Threads :
             /\ (TouchesEvictableSet(t) \/ TouchesUpdateMap(t)) => latch_evictable_ = t
             /\ TouchesStore(t) => latch_store_ = t)
    /\ [][\A t \in Threads : Steps(t) =>
             /\ (evictable_' # evictable_ \/ update_eviction_' # update_eviction_) =>
                   latch_evictable_ = t
             /\ node_store_' # node_store_ => latch_store_ = t]_vars

\* C23: each read or write of the evictable set is made by a thread that
\* holds the evictable lock at that step, and each read or write of the
\* pending-update map, the node store, a history or a flag by a thread that
\* holds the store lock.
C23_LockDisciplineStoreGuardsUpdates ==
    /\ [](\A t \in Threads :
             /\ TouchesEvictableSet(t) => latch_evictable_ = t
             /\ (TouchesUpdateMap(t) \/ TouchesStore(t)) => latch_store_ = t)
    /\ [][\A t \in Threads : Steps(t) =>
             /\ evictable_' # evictable_ => latch_evictable_ = t
             /\ (update_eviction_' # update_eviction_ \/ node_store_' # node_store_) =>
                   latch_store_ = t]_vars

\* a RecordAccess is about to add a pending update while another thread,
\* inside Size, holds the evictable lock
C23_Witness ==
    \E t, u \in Threads :
        /\ pc[t] = "RecordAccess_body"
        /\ TouchesUpdateMap(t)
        /\ frame[t].fid \notin DOMAIN update_eviction_
        /\ pc[u] = "Size_body"
        /\ latch_evictable_ = u

StrictlyDecreasing(seq) == \A i \in 1..(Len(seq) - 1) : seq[i] > seq[i + 1]

\* C24: in every reachable state, also after RecordAccess calls that ran at
\* the same time on one frame, the history of every tracked frame is ordered
\* most recent first: its timestamps strictly decrease from the front to the
\* back.
C24_HistoryMostRecentFirst ==
    \A f \in DOMAIN node_store_ : StrictlyDecreasing(node_store_[f].history_)

\* a SetEvictable call has written the flag and not yet the evictable set
MidSetEvictable(t) ==
    pc[t] \in {"addEvictable", "addEvictable_body", "removeEvictable", "removeEvictable_body"}

SetMatchesFlags ==
    /\ HeapFids(evictable_) = EvictableFrames(node_store_)
    /\ Len(evictable_) = Cardinality(EvictableFrames(node_store_))

SizeSawFlagCount ==
    last.op = "Size" => last.ret = Cardinality(EvictableFrames(pre.node_store_))

EvictCalled == last.op = "Evict"

\* every frame but f has the node it had before the call
OthersUnchanged(f) ==
    /\ DOMAIN node_store_ = (DOMAIN pre.node_store_) \ {f}
    /\ \A g \in DOMAIN node_store_ : node_store_[g] = pre.node_store_[g]

\* C26: an Evict() that returns f leaves f untracked and out of the
\* evictable set, Size() one less than before, every other frame's history
\* and flag as they were and the timestamp counter as it was; an Evict() on
\* an empty evictable set returns nothing and changes nothing.
C26_EvictRemovesExactlyOne ==
    EvictCalled =>
        /\ current_timestamp_ = pre.current_timestamp_
        /\ IF pre.evictable_ = <<>>
           THEN /\ last.ret = NoValue
                /\ node_store_ = pre.node_store_
                /\ evictable_ = pre.evictable_
                /\ update_eviction_ = pre.update_eviction_
           ELSE /\ last.ret \in HeapFids(pre.evictable_)
                /\ last.ret \notin DOMAIN node_store_
                /\ last.ret \notin HeapFids(evictable_)
                /\ HeapFids(evictable_) = HeapFids(pre.evictable_) \ {last.ret}
                /\ Len(evictable_) = Len(pre.evictable_) - 1
                /\ OthersUnchanged(last.ret)

\* Evict() returned a frame while another frame was tracked and evictable,
\* and in another run found nothing to evict
C26_Witness ==
    /\ Evicted
    /\ Len(pre.evictable_) > 1
    /\ \E g \in DOMAIN node_store_ : node_store_[g].is_evictable_

C26_WitnessEmpty ==
    /\ EvictCalled /\ last.ret = NoValue
    /\ DOMAIN pre.node_store_ # {}

PendingFrames == DOMAIN update_eviction_

\* C27: every frame id with an entry in the pending-update map is tracked,
\* has its evictable flag true and is in the evictable set; so the map is
\* empty whenever the evictable set is empty, and the evictable set never
\* holds two entries for one frame id.
C27_PendingUpdatesAreEvictable ==
    /\ PendingFrames \subseteq DOMAIN node_store_
    /\ PendingFrames \subseteq EvictableFrames(node_store_)
    /\ PendingFrames \subseteq HeapFids(evictable_)
    /\ evictable_ = <<>> => update_eviction_ = EmptyMap
    /\ \A i, j \in 1..Len(evictable_) :
          evictable_[i].fid_ = evictable_[j].fid_ => i = j

\* a frame with a pending update was made non-evictable or removed while
\* another frame's update stays pending
C27_Witness ==
    /\ last.op \in {"SetEvictable", "Remove"}
    /\ last.fid \in DOMAIN pre.update_eviction_
    /\ last.fid \notin PendingFrames
    /\ PendingFrames # {}

\* with several threads the same holds whenever no SetEvictable is between
\* writing the flag and updating the evictable set
PendingUpdatesAreEvictableBetweenCalls ==
    (\A t \in Threads : ~MidSetEvictable(t)) => C27_PendingUpdatesAreEvictable

\* the two BUSTUB_ASSERTs of the key comparison (lines 26 and 38, 276 and
\* 288) pass for every two entries of ev
KeysDistinct(ev) ==
    \A i, j \in 1..Len(ev) : i # j =>
        /\ (ev[i].kAccess_ # NoValue /\ ev[j].kAccess_ # NoValue) =>
              ev[i].kAccess_ # ev[j].kAccess_
        /\ (ev[i].kAccess_ = NoValue /\ ev[j].kAccess_ = NoValue) =>
              ev[i].lAccess_ # ev[j].lAccess_

\* a removeEvictable of the last call searched a vector that holds the frame
RemoveEvictableCalled ==
    /\ \/ last.op = "SetEvictable" /\ ~last.flag
       \/ last.op = "Remove"
    /\ last.fid \in EvictableFrames(pre.node_store_)

\* C28: the distinctness assertions of the key comparison never fail: any
\* two entries of the evictable heap, stale ones included, and of the heap
\* Evict rebuilds from the pending updates, that both have a K-th access
\* differ in kAccess_, and any two that both lack one differ in lAccess_;
\* the same for the heap of the replacer that repositions; and
\* removeEvictable always finds the frame it is asked to remove.
C28_ComparisonAssertionsHold ==
    /\ KeysDistinct(evictable_)
    /\ KeysDistinct(ApplyUpdates(evictable_, update_eviction_))
    /\ KeysDistinct(eager_evictable)
    /\ EvictableFrames(node_store_) \subseteq HeapFids(evictable_)
    /\ EvictableFrames(eager_node_store_) \subseteq HeapFids(eager_evictable)
    /\ RemoveEvictableCalled => FindFid(pre.evictable_, last.fid) # 0

\* two heap entries that both have a K-th access, one of them stale
C28_Witness ==
    /\ Len(evictable_) = 2
    /\ \A i \in 1..2 : evictable_[i].kAccess_ # NoValue
    /\ \E i \in 1..2 : /\ evictable_[i].fid_ \in DOMAIN update_eviction_
                       /\ update_eviction_[evictable_[i].fid_] # evictable_[i]
    /\ Len(eager_evictable) = 2

\* two heap entries that both lack a K-th access
C28_WitnessNoKth ==
    /\ Len(evictable_) = 2
    /\ \A i \in 1..2 : evictable_[i].kAccess_ = NoValue
    /\ update_eviction_ # EmptyMap

\* removeEvictable was called for a frame with a stale key
C28_WitnessRemove ==
    /\ RemoveEvictableCalled
    /\ last.fid \in DOMAIN pre.update_eviction_

\* with several threads: the keys stay distinct, and a thread about to run
\* removeEvictable finds its frame in the vector
AssertionsHoldWithThreads ==
    /\ KeysDistinct(evictable_)
    /\ KeysDistinct(ApplyUpdates(evictable_, update_eviction_))
    /\ \A t \in Threads :
          pc[t] \in {"removeEvictable", "removeEvictable_body",
                     "Remove_removeEvictable", "Remove_removeEvictable_body"} =>
             FindFid(evictable_, frame[t].fid) # 0
====
